---------------------------- MODULE Spec2Model ----------------------------
(***************************************************************************)
(* The withdrawal activation service: one WithdrawalRequest row, the job   *)
(* that processNewRequest enqueues for it, the withdrawal processor        *)
(* (multiSigWorker), its 'failed' listener, and cancelRequest.             *)
(*                                                                         *)
(* Every `await` of the source is one atomic step; between two steps any   *)
(* other caller, the processor or a pending 'failed' listener may run.     *)
(* A retry starts after the backoff delay of worker.js:105-108 (10 s and   *)
(* more); the 'failed' listener of the attempt before it, two awaits long, *)
(* has finished by then.                                                   *)
(*                                                                         *)
(* The raw transaction relay (processRawTransactionBroadcast, the          *)
(* rawTxBroadcastWorker and its 'failed' listener) is a second machine on  *)
(* its own row and job, with variables of its own (raw...).  It is small   *)
(* enough to keep both orders of a retry and the listener before it.       *)
(*                                                                         *)
(* Five specifications: Spec is the withdrawal side with one submitter;    *)
(* SpecFaults adds store updates that reject; SpecIntake is the API        *)
(* process with concurrent submitters; SpecRaw is the raw relay; SpecDup   *)
(* is one request named by two jobs that two worker instances process      *)
(* side by side (variables dup...).                                        *)
(*                                                                         *)
(* The queue is BullMQ (require('bullmq')), a library outside the          *)
(* repository.  What the model takes from it:                              *)
(*   - a job's attemptsMade is 0 on its first attempt and is incremented   *)
(*     when an attempt throws, before anything else happens;               *)
(*   - the job is retried while attemptsMade < (the job's attempts         *)
(*     option), and is otherwise moved to the failed set;                  *)
(*   - the worker emits 'failed' each time the processor throws, whether   *)
(*     or not the job will be retried; the listener is not awaited.        *)
(* The source sets `attempts: 5` in the Worker options (worker.js:104) and *)
(* passes no job options to Queue.add (withdrawal_manager.js:70); whether  *)
(* a job then gets 5 attempts or the library default of one is decided by  *)
(* the library, so Enqueue keeps both outcomes.                            *)
(***************************************************************************)
EXTENDS Naturals, Sequences, FiniteSets

(***************************************************************************)
(* Bounds of the model                                                     *)
(***************************************************************************)
\* number of cancelRequest calls (they may run concurrently)
MaxCancels == 1
\* the concurrent processNewRequest calls with the one requestId
MaxSubmitters == 2

(***************************************************************************)
(* Program constants                                                       *)
(***************************************************************************)
\* worker.js:104  attempts: 5
attempts == 5

Statuses ==
    {"PENDING_SIGNATURE", "PROCESSING", "BROADCASTED", "COMPLETED",
     "FAILED", "CANCELLED"}

\* findUnique resolving to null: no row
NoRow == "NO_ROW"
\* a nullable column holding null (txHash is 0 when null, else the number
\* of the transfer submission that returned it)
Null == "null"

\* the skip list had it only 'COMPLETED' (a faulty variant, for C3)
SkipStatusesCompletedOnly == {"COMPLETED"}

\* worker.js:29  ['COMPLETED', 'CANCELLED']
SkipStatuses == {"COMPLETED", "CANCELLED"}

\* the calls of the processor that can reject, by the message of the error
ErrDecimals == "decimals() failed"
ErrFeeData  == "getFeeData() failed"
ErrTransfer == "transfer() failed"
ErrWait     == "wait(1) failed"
\* a prisma update of the processor rejecting (worker.js:45, 78, 90)
ErrStore    == "update failed"
Errors == {ErrDecimals, ErrFeeData, ErrTransfer, ErrWait, ErrStore}
\* provider.broadcastTransaction rejecting (worker.js:133)
ErrBroadcast == "broadcastTransaction failed"
RawErrors == {ErrBroadcast, ErrWait, ErrStore}
\* worker.js:155  attempts of the rawTxBroadcastWorker options
rawAttempts == 3
\* schema.prisma:44  the statuses of a RawTransactionBroadcast row
RawStatuses == {"PENDING", "BROADCASTED", "CONFIRMED", "FAILED"}

\* the fee estimate the network gives during the n-th attempt: the estimate
\* moves with the network, so no two attempts are given the same one
FeeAt(n) == n

Callers == 1..MaxCancels
Submitters == 1..MaxSubmitters
\* the two jobs that name the one request
Jobs == {1, 2}

VARIABLES
    \* --- the WithdrawalRequest row and its HistoryEntry rows (the store)
    rowId,          \* the row's id (0: no row)
    status,         \* NoRow, or the row's status
    txHash,         \* 0 (null) or the hash of a submitted transfer
    errorMessage,   \* Null or the message of an error
    history,        \* the statuses of the row's HistoryEntry rows, in order
    \* --- the job of the 'withdrawal-processing' queue (the broker)
    jobState,       \* "none", "wait", "active", "completed", "failed"
    attemptsMade,   \* job.attemptsMade
    optsAttempts,   \* the attempts the broker grants the job
    dbId,           \* job.data.dbId (0: no job)
    \* --- one execution of the processor (worker.js:22-100)
    pc,             \* its position
    request,        \* the status of the row it loaded (worker.js:26)
    txResponse,     \* the hash of the transfer it submitted (worker.js:72)
    feeData,        \* the fee estimate it fetched (worker.js:63), 0: none
    error,          \* the error it threw
    \* --- 'failed' events emitted and not yet fully handled, oldest first
    failedEvents,   \* <<[attemptsMade, err, pc]>>
    alerts,         \* the payloads alertingService.sendAlert received
    \* --- callers of the service
    intakePc,       \* processNewRequest, per caller: "idle", "create", "add"
    intakeResult,   \* per caller: "none", "ok", "duplicate", "rejected",
                    \* "enqueueFailed"
    cancelPc,       \* per cancelRequest call: "idle", "update", or its result
    \* --- the chain
    submitted,      \* transfers the chain accepted
    submittedFee,   \* the fee overrides of the last transfer call
    confirmed,      \* the hashes whose wait(1) resolved
    chainCalls,     \* the calls the current attempt made to the chain client
    \* --- history of the run, read only by properties
    deliveries,     \* attempts the broker started
    outcomes,       \* how the attempts so far ended
    statusChanges,  \* writes that changed the value of status
    rowsCreated,    \* WithdrawalRequest rows created
    jobsAdded,      \* jobs added to the queue
    \* --- the raw transaction relay: row, job, processor, listener, chain
    rawStatus,      \* NoRow, or the status of the RawTransactionBroadcast row
    rawTxHash,      \* its txHash (0: null)
    rawErrorMessage,\* its errorMessage
    rawJobState,    \* "none", "wait", "active", "completed", "failed"
    rawAttemptsMade,\* job.attemptsMade
    rawOptsAttempts,\* job.opts.attempts
    rawPc,          \* where the raw processor stands
    rawRequest,     \* its local `request`: the status it loaded
    rawTxResponse,  \* its local `txResponse`: the hash (0: none)
    rawError,       \* the error it threw
    rawFailedEvents,\* 'failed' events the listener has not finished
    rawAlerts,      \* payloads given to AlertingService.sendAlert
    rawBroadcasts,  \* transactions the chain accepted
    rawCalls,       \* the calls the current attempt made to the chain client
    rawDeliveries,  \* attempts the broker started
    rawIntakePc,    \* where processRawTransactionBroadcast stands
    \* --- one request with two jobs, each run by a worker instance of its own
    dupStatus,      \* NoRow, or the status of the row
    dupTxHash,      \* its txHash (0: null)
    dupJobState,    \* per job: "none", "wait", "active", "completed", "failed"
    dupAttemptsMade,\* per job: job.attemptsMade
    dupOptsAttempts,\* per job: job.opts.attempts
    dupPc,          \* per job: where the processor running it stands
    dupRequest,     \* per job: the status its processor loaded
    dupTxResponse,  \* per job: the hash its transfer returned (0: none)
    dupFailed,      \* per job: a 'failed' event its listener has not handled
    dupSubmitted,   \* transfers the chain accepted
    dupSubmittedBy  \* the jobs with an attempt whose transfer was accepted

store == <<status, txHash, errorMessage, history>>
job == <<jobState, attemptsMade, optsAttempts>>
processor == <<pc, request, txResponse, feeData, error>>
callers == <<intakePc, intakeResult, cancelPc>>
chain == <<submitted, submittedFee, confirmed, chainCalls>>
\* what processNewRequest alone sets
made == <<rowId, dbId, rowsCreated, jobsAdded>>
\* the withdrawal side
withdrawal == <<store, job, processor, failedEvents, alerts, callers, chain,
                deliveries, outcomes, statusChanges, made>>
\* the raw transaction relay
rawStore == <<rawStatus, rawTxHash, rawErrorMessage>>
rawJob == <<rawJobState, rawAttemptsMade, rawOptsAttempts>>
rawProcessor == <<rawPc, rawRequest, rawTxResponse, rawError>>
raw == <<rawStore, rawJob, rawProcessor, rawFailedEvents, rawAlerts,
         rawBroadcasts, rawCalls, rawDeliveries, rawIntakePc>>
\* one request with two jobs
dupStore == <<dupStatus, dupTxHash>>
dupJob == <<dupJobState, dupAttemptsMade, dupOptsAttempts>>
dupProcessor == <<dupPc, dupRequest, dupTxResponse>>
dupChain == <<dupSubmitted, dupSubmittedBy>>
dup == <<dupStore, dupJob, dupProcessor, dupFailed, dupChain>>
vars == <<withdrawal, raw, dup>>

Init ==
    /\ dupStatus = NoRow
    /\ dupTxHash = 0
    /\ dupJobState = [j \in Jobs |-> "none"]
    /\ dupAttemptsMade = [j \in Jobs |-> 0]
    /\ dupOptsAttempts = [j \in Jobs |-> 0]
    /\ dupPc = [j \in Jobs |-> "idle"]
    /\ dupRequest = [j \in Jobs |-> NoRow]
    /\ dupTxResponse = [j \in Jobs |-> 0]
    /\ dupFailed = [j \in Jobs |-> FALSE]
    /\ dupSubmitted = 0
    /\ dupSubmittedBy = {}
    /\ rawStatus = NoRow
    /\ rawTxHash = 0
    /\ rawErrorMessage = Null
    /\ rawJobState = "none"
    /\ rawAttemptsMade = 0
    /\ rawOptsAttempts = 0
    /\ rawPc = "idle"
    /\ rawRequest = NoRow
    /\ rawTxResponse = 0
    /\ rawError = Null
    /\ rawFailedEvents = <<>>
    /\ rawAlerts = <<>>
    /\ rawBroadcasts = 0
    /\ rawCalls = <<>>
    /\ rawDeliveries = 0
    /\ rawIntakePc = "idle"
    /\ status = NoRow
    /\ txHash = 0
    /\ errorMessage = Null
    /\ history = <<>>
    /\ jobState = "none"
    /\ attemptsMade = 0
    /\ optsAttempts = 0
    /\ pc = "idle"
    /\ request = NoRow
    /\ txResponse = 0
    /\ feeData = 0
    /\ error = Null
    /\ failedEvents = <<>>
    /\ alerts = <<>>
    /\ intakePc = [c \in Submitters |-> "idle"]
    /\ intakeResult = [c \in Submitters |-> "none"]
    /\ cancelPc = [c \in Callers |-> "idle"]
    /\ submitted = 0
    /\ submittedFee = 0
    /\ confirmed = {}
    /\ chainCalls = <<>>
    /\ deliveries = 0
    /\ outcomes = {}
    /\ statusChanges = 0
    /\ rowId = 0
    /\ dbId = 0
    /\ rowsCreated = 0
    /\ jobsAdded = 0

(***************************************************************************)
(* The store: prisma.withdrawalRequest.update with a nested history create *)
(* is one statement: the status and the HistoryEntry are written together. *)
(***************************************************************************)
\* an update of the status with no nested history create (a faulty variant,
\* for C25)
SetStatusOnly(s) ==
    /\ status' = s
    /\ history' = history
    /\ statusChanges' = IF status = s THEN statusChanges ELSE statusChanges + 1

\* data: { status: s, history: { create: { status: s } } }
SetStatus(s) ==
    /\ status' = s
    /\ history' = Append(history, s)
    /\ statusChanges' = IF status = s THEN statusChanges ELSE statusChanges + 1

(***************************************************************************)
(* WithdrawalManager.processNewRequest                                     *)
(***************************************************************************)
\* withdrawal_manager.js:47-55  findUnique, duplicate check
ProcessNewRequestFind(c) ==
    /\ intakePc[c] = "idle"
    /\ IF status # NoRow
       THEN /\ intakeResult' = [intakeResult EXCEPT ![c] = "duplicate"]
            /\ intakePc' = intakePc
       ELSE /\ intakeResult' = [intakeResult EXCEPT ![c] = "none"]
            /\ intakePc' = [intakePc EXCEPT ![c] = "create"]
    /\ UNCHANGED <<store, job, processor, failedEvents, alerts, cancelPc,
                   chain, deliveries, outcomes, statusChanges, made, raw, dup>>

\* a create that no unique index guards: a second row is made for the
\* requestId (a faulty variant, for C17)
CreateWithoutUnique(c) ==
    /\ intakePc[c] = "create"
    /\ rowId' = rowsCreated + 1
    /\ rowsCreated' = rowsCreated + 1
    /\ status' = "PENDING_SIGNATURE"
    /\ txHash' = 0
    /\ errorMessage' = Null
    /\ history' = <<"PENDING_SIGNATURE">>
    /\ intakePc' = [intakePc EXCEPT ![c] = "add"]
    /\ UNCHANGED <<job, processor, failedEvents, alerts, intakeResult,
                   cancelPc, chain, deliveries, outcomes,
                   statusChanges, dbId, jobsAdded, raw, dup>>

\* withdrawal_manager.js:57-67  create with the schema's default status
\* (schema.prisma:16) and the first HistoryEntry; the row gets its id
\* (schema.prisma:14).  The unique index on requestId (schema.prisma:15)
\* makes the create reject when a row with the requestId exists, and the
\* call rejects with it.
ProcessNewRequestCreate(c) ==
    /\ intakePc[c] = "create"
    /\ IF status = NoRow
       THEN /\ rowId' = rowsCreated + 1
            /\ rowsCreated' = rowsCreated + 1
            /\ status' = "PENDING_SIGNATURE"
            /\ txHash' = 0
            /\ errorMessage' = Null
            /\ history' = <<"PENDING_SIGNATURE">>
            /\ intakePc' = [intakePc EXCEPT ![c] = "add"]
            /\ UNCHANGED intakeResult
       ELSE /\ intakeResult' = [intakeResult EXCEPT ![c] = "rejected"]
            /\ intakePc' = [intakePc EXCEPT ![c] = "idle"]
            /\ UNCHANGED <<store, rowId, rowsCreated>>
    /\ UNCHANGED <<job, processor, failedEvents, alerts,
                   cancelPc, chain, deliveries, outcomes,
                   statusChanges, dbId, jobsAdded, raw, dup>>

\* the attempts a job added without options can get: the library default
\* of a single attempt, or the Worker's `attempts`
GrantedAttempts == {1, attempts}

\* a payload that names another row (a faulty variant, for C16)
JobDataOtherRow == rowId + 1

\* withdrawal_manager.js:70  { dbId: newRequest.id }
JobData == rowId

\* withdrawal_manager.js:70  withdrawalQueue.add('process-withdrawal', {dbId})
Enqueue(c) ==
    /\ intakePc[c] = "add"
    /\ jobState' = "wait"
    /\ attemptsMade' = 0
    /\ optsAttempts' \in GrantedAttempts
    /\ dbId' = JobData
    /\ jobsAdded' = jobsAdded + 1
    /\ intakePc' = [intakePc EXCEPT ![c] = "idle"]
    /\ intakeResult' = [intakeResult EXCEPT ![c] = "ok"]
    /\ UNCHANGED <<store, processor, failedEvents, alerts, cancelPc,
                   chain, deliveries, outcomes, statusChanges, rowId,
                   rowsCreated, raw, dup>>

\* withdrawal_manager.js:70  withdrawalQueue.add rejecting (the queue cannot
\* be reached): processNewRequest has no catch, the call rejects, and the
\* row created at withdrawal_manager.js:57-67 stays
EnqueueRejects(c) ==
    /\ intakePc[c] = "add"
    /\ intakePc' = [intakePc EXCEPT ![c] = "idle"]
    /\ intakeResult' = [intakeResult EXCEPT ![c] = "enqueueFailed"]
    /\ UNCHANGED <<store, job, processor, failedEvents, alerts, cancelPc,
                   chain, deliveries, outcomes, statusChanges, made, raw, dup>>

(***************************************************************************)
(* WithdrawalManager.cancelRequest                                         *)
(***************************************************************************)
\* withdrawal_manager.js:81-93  findUnique and the two guards
CancelFind(c) ==
    /\ cancelPc[c] = "idle"
    /\ cancelPc' = [cancelPc EXCEPT ![c] =
           IF status = NoRow THEN "notfound"
           ELSE IF status # "PENDING_SIGNATURE" THEN "conflict"
           ELSE "update"]
    /\ UNCHANGED <<store, job, processor, failedEvents, alerts, intakePc,
                   intakeResult, chain, deliveries, outcomes,
                   statusChanges, made, raw, dup>>

\* withdrawal_manager.js:95-101  update to CANCELLED, unconditional
CancelUpdate(c) ==
    /\ cancelPc[c] = "update"
    /\ SetStatus("CANCELLED")
    /\ cancelPc' = [cancelPc EXCEPT ![c] = "ok"]
    /\ UNCHANGED <<txHash, errorMessage, job, processor, failedEvents,
                   alerts, intakePc, intakeResult, chain,
                   deliveries, outcomes, made, raw, dup>>

CancelRequest == \E c \in Callers : CancelFind(c) \/ CancelUpdate(c)

(***************************************************************************)
(* The broker starting an attempt                                          *)
(***************************************************************************)
\* worker.js:20-24  the Worker takes the waiting job and calls the processor
\* (its locals are new in every execution).
\* A retry waits for its backoff delay (worker.js:105-108), which outlasts
\* the 'failed' listener of the attempt before it.
Deliver ==
    /\ jobState = "wait"
    /\ pc = "idle"
    /\ failedEvents = <<>>
    /\ jobState' = "active"
    /\ pc' = "findUnique"
    /\ request' = NoRow
    /\ txResponse' = 0
    /\ feeData' = 0
    /\ error' = Null
    /\ chainCalls' = <<>>
    /\ deliveries' = deliveries + 1
    /\ UNCHANGED <<store, attemptsMade, optsAttempts, failedEvents, alerts,
                   callers, submitted, submittedFee, confirmed, outcomes,
                   statusChanges, made, raw, dup>>

(***************************************************************************)
(* The withdrawal processor, worker.js:22-100                              *)
(***************************************************************************)
\* worker.js:26  findUnique({ where: { id } }): the status of the row with
\* that id, NoRow when there is none
RowById(id) == IF status # NoRow /\ id = rowId THEN status ELSE NoRow

\* worker.js:29  !request || ['COMPLETED','CANCELLED'].includes(request.status)
Skips(r) == r = NoRow \/ r \in SkipStatuses

\* the guard of the PROCESSING update left out (a faulty variant, for C8)
EveryAttempt == TRUE

\* worker.js:44  job.attemptsMade === 0
FirstAttempt == attemptsMade = 0

\* worker.js:26-32  load the row; return at once when it is to be skipped
FindUnique ==
    /\ pc = "findUnique"
    /\ request' = RowById(dbId)
    /\ IF Skips(RowById(dbId))
       THEN /\ pc' = "skipped"
            /\ outcomes' = outcomes \cup {"skipped"}
       ELSE /\ pc' = IF FirstAttempt THEN "setProcessing" ELSE "decimals"
            /\ outcomes' = outcomes
    /\ UNCHANGED <<store, job, txResponse, feeData, error, failedEvents,
                   alerts, callers, chain, deliveries, statusChanges, made,
                   raw, dup>>

\* worker.js:95-99  an awaited call inside the try rejected with `err`: the
\* catch logs and rethrows, the execution ends
Throws(err) ==
    /\ pc' = "threw"
    /\ error' = err
    /\ outcomes' = outcomes \cup {err}

\* worker.js:45-52  status PROCESSING, errorMessage null, one HistoryEntry
SetProcessing ==
    /\ pc = "setProcessing"
    /\ SetStatus("PROCESSING")
    /\ errorMessage' = Null
    /\ pc' = "decimals"
    /\ UNCHANGED <<txHash, error, outcomes>>
    /\ UNCHANGED <<job, request, txResponse, feeData, failedEvents, alerts,
                   callers, chain, deliveries, made, raw, dup>>

\* a chain call whose rejection is caught and hidden: the processor goes on
\* (a faulty variant, for C11)
ChainCallSwallows(at, next, err) ==
    /\ pc = at
    /\ chainCalls' = Append(chainCalls, at)
    /\ pc' = next
    /\ \/ UNCHANGED <<error, outcomes>>
       \/ /\ error' = err
          /\ outcomes' = outcomes \cup {err}

\* a call of the chain client at position `at`: it resolves and the
\* processor moves to `next`, or it rejects with `err`, which the catch of
\* worker.js:95-99 rethrows
ChainCall(at, next, err) ==
    /\ pc = at
    /\ chainCalls' = Append(chainCalls, at)
    /\ \/ /\ pc' = next
          /\ UNCHANGED <<error, outcomes>>
       \/ Throws(err)

\* worker.js:56-60  tokenContract.decimals(), parseUnits
Decimals ==
    /\ ChainCall("decimals", "getFeeData", ErrDecimals)
    /\ UNCHANGED <<store, job, request, txResponse, feeData, failedEvents,
                   alerts, callers, submitted, submittedFee, confirmed,
                   deliveries, statusChanges, made, raw, dup>>

\* a fee estimate fetched in the first attempt and used again by the
\* retries (a faulty variant, for C19)
GetFeeDataCached ==
    /\ ChainCall("getFeeData", "transfer", ErrFeeData)
    /\ feeData' = IF pc' = "transfer" THEN FeeAt(1) ELSE feeData
    /\ UNCHANGED <<store, job, request, txResponse, failedEvents, alerts,
                   callers, submitted, submittedFee, confirmed, deliveries,
                   statusChanges, made, raw, dup>>

\* worker.js:63-69  provider.getFeeData(): the estimate of this moment, kept
\* in feeData and copied into txOverrides
GetFeeData ==
    /\ ChainCall("getFeeData", "transfer", ErrFeeData)
    /\ feeData' = IF pc' = "transfer" THEN FeeAt(deliveries) ELSE feeData
    /\ UNCHANGED <<store, job, request, txResponse, failedEvents, alerts,
                   callers, submitted, submittedFee, confirmed, deliveries,
                   statusChanges, made, raw, dup>>

\* worker.js:72-76  tokenContract.transfer(to, amount, txOverrides): accepted
\* by the chain, with a new hash, or rejected
Transfer ==
    /\ ChainCall("transfer", "setBroadcasted", ErrTransfer)
    /\ submittedFee' = feeData
    /\ IF pc' = "setBroadcasted"
       THEN /\ submitted' = submitted + 1
            /\ txResponse' = submitted + 1
       ELSE UNCHANGED <<submitted, txResponse>>
    /\ UNCHANGED <<store, job, request, feeData, failedEvents, alerts,
                   callers, confirmed, deliveries, statusChanges, made, raw, dup>>

\* the BROADCASTED update without its nested history create (a faulty
\* variant, for C10)
SetBroadcastedNoHistory ==
    /\ pc = "setBroadcasted"
    /\ status' = "BROADCASTED"
    /\ statusChanges' =
           IF status = "BROADCASTED" THEN statusChanges ELSE statusChanges + 1
    /\ txHash' = txResponse
    /\ pc' = "wait"
    /\ UNCHANGED <<history, errorMessage, job, request, txResponse, feeData,
                   error, failedEvents, alerts, callers, chain, deliveries,
                   outcomes, made, raw, dup>>

\* worker.js:78-85  status BROADCASTED, txHash, one HistoryEntry
SetBroadcasted ==
    /\ pc = "setBroadcasted"
    /\ SetStatus("BROADCASTED")
    /\ txHash' = txResponse
    /\ pc' = "wait"
    /\ UNCHANGED <<errorMessage, error, outcomes>>
    /\ UNCHANGED <<job, request, txResponse, feeData, failedEvents, alerts,
                   callers, chain, deliveries, made, raw, dup>>

\* a wait whose rejection is caught and hidden: the processor goes on to
\* the COMPLETED update (a faulty variant, for C20)
WaitIgnoresRejection ==
    /\ pc = "wait"
    /\ chainCalls' = Append(chainCalls, "wait")
    /\ pc' = "setCompleted"
    /\ \/ confirmed' = confirmed \cup {txResponse}
       \/ confirmed' = confirmed
    /\ UNCHANGED <<store, job, request, txResponse, feeData, error,
                   failedEvents, alerts, callers, submitted, submittedFee,
                   deliveries, outcomes, statusChanges, made, raw, dup>>

\* a wait whose rejection is recorded on the row by the processor itself (a
\* faulty variant, for C18)
WaitMarksFailed ==
    /\ ChainCall("wait", "setCompleted", ErrWait)
    /\ confirmed' = IF pc' = "setCompleted"
                    THEN confirmed \cup {txResponse} ELSE confirmed
    /\ IF pc' = "threw"
       THEN /\ SetStatus("FAILED")
            /\ errorMessage' = ErrWait
            /\ UNCHANGED txHash
       ELSE UNCHANGED <<store, statusChanges>>
    /\ UNCHANGED <<job, request, txResponse, feeData, failedEvents,
                   alerts, callers, submitted, submittedFee, deliveries,
                   made, raw, dup>>

\* worker.js:88  txResponse.wait(1): resolves once the transaction has one
\* confirmation
Wait ==
    /\ ChainCall("wait", "setCompleted", ErrWait)
    /\ confirmed' = IF pc' = "setCompleted"
                    THEN confirmed \cup {txResponse} ELSE confirmed
    /\ UNCHANGED <<store, job, request, txResponse, feeData, failedEvents,
                   alerts, callers, submitted, submittedFee, deliveries,
                   statusChanges, made, raw, dup>>

\* worker.js:90-94  status COMPLETED, one HistoryEntry; the processor returns
SetCompleted ==
    /\ pc = "setCompleted"
    /\ SetStatus("COMPLETED")
    /\ pc' = "returned"
    /\ outcomes' = outcomes \cup {"ok"}
    /\ UNCHANGED <<txHash, errorMessage, error>>
    /\ UNCHANGED <<job, request, txResponse, feeData, failedEvents, alerts,
                   callers, chain, deliveries, made, raw, dup>>

\* worker.js:45, 78, 90  a prisma update of the processor rejecting: nothing
\* is written, and the catch of worker.js:95-99 rethrows
UpdateRejects ==
    /\ pc \in {"setProcessing", "setBroadcasted", "setCompleted"}
    /\ Throws(ErrStore)
    /\ UNCHANGED <<store, statusChanges, job, request, txResponse, feeData,
                   failedEvents, alerts, callers, chain, deliveries, made,
                   raw, dup>>

(***************************************************************************)
(* The broker ending an attempt                                            *)
(***************************************************************************)
\* the processor returned (worker.js:31 or worker.js:94): the job is
\* completed; the 'completed' listener (worker.js:161-163) only logs
MoveToCompleted ==
    /\ jobState = "active"
    /\ pc \in {"skipped", "returned"}
    /\ jobState' = "completed"
    /\ UNCHANGED <<store, attemptsMade, optsAttempts, processor,
                   failedEvents, alerts, callers, chain, deliveries,
                   outcomes, statusChanges, made, raw, dup>>

\* the processor threw (worker.js:98): the attempt is counted, the job is
\* retried or moved to the failed set (worker.js:101-109), and 'failed' is
\* emitted with the job and the error (worker.js:165)
MoveToFailed ==
    /\ jobState = "active"
    /\ pc = "threw"
    /\ attemptsMade' = attemptsMade + 1
    /\ jobState' = IF attemptsMade + 1 < optsAttempts THEN "wait" ELSE "failed"
    /\ failedEvents' = Append(failedEvents,
           [attemptsMade |-> attemptsMade + 1, err |-> error, pc |-> "update"])
    /\ pc' = "idle"
    /\ UNCHANGED <<store, optsAttempts, request, txResponse, feeData, error,
                   alerts, callers, chain, deliveries, outcomes,
                   statusChanges, made, raw, dup>>

(***************************************************************************)
(* multiSigWorker.on('failed'), worker.js:165-175                          *)
(***************************************************************************)
\* a listener that marks FAILED only a row that is PROCESSING (a faulty
\* variant, for C27)
FailedUpdateIfProcessing ==
    /\ failedEvents # <<>>
    /\ Head(failedEvents).pc = "update"
    /\ IF status = "PROCESSING"
       THEN /\ SetStatus("FAILED")
            /\ errorMessage' = Head(failedEvents).err
       ELSE UNCHANGED <<status, history, statusChanges, errorMessage>>
    /\ failedEvents' = [failedEvents EXCEPT ![1].pc = "alert"]
    /\ UNCHANGED <<txHash, job, processor, alerts, callers, chain,
                   deliveries, outcomes, made, raw, dup>>

\* worker.js:168-171  status FAILED, errorMessage, one HistoryEntry
FailedUpdate ==
    /\ failedEvents # <<>>
    /\ Head(failedEvents).pc = "update"
    /\ SetStatus("FAILED")
    /\ errorMessage' = Head(failedEvents).err
    /\ failedEvents' = [failedEvents EXCEPT ![1].pc = "alert"]
    /\ UNCHANGED <<txHash, job, processor, alerts, callers, chain,
                   deliveries, outcomes, made, raw, dup>>

\* worker.js:173  attempts: job.attemptsMade + 1
AlertAttempts(j) == j.attemptsMade + 1

\* worker.js:172-174  alertingService.sendAlert(title, payload)
FailedAlert ==
    /\ failedEvents # <<>>
    /\ Head(failedEvents).pc = "alert"
    /\ alerts' = Append(alerts,
           [attempts |-> AlertAttempts(Head(failedEvents)),
            error |-> Head(failedEvents).err])
    /\ failedEvents' = Tail(failedEvents)
    /\ UNCHANGED <<store, job, processor, callers, chain, deliveries,
                   outcomes, statusChanges, made, raw, dup>>

(***************************************************************************)
(* WithdrawalManager.processRawTransactionBroadcast                        *)
(***************************************************************************)
\* withdrawal_manager.js:159-164  create, with the schema's default status
\* (schema.prisma:44)
RawCreate ==
    /\ rawIntakePc = "idle"
    /\ rawStatus = NoRow
    /\ rawStatus' = "PENDING"
    /\ rawTxHash' = 0
    /\ rawErrorMessage' = Null
    /\ rawIntakePc' = "add"
    /\ UNCHANGED <<rawJob, rawProcessor, rawFailedEvents, rawAlerts,
                   rawBroadcasts, rawCalls, rawDeliveries, withdrawal, dup>>

\* the attempts a job added without options can get: the library default
\* of a single attempt, or the Worker's `attempts`
RawGrantedAttempts == {1, rawAttempts}

\* withdrawal_manager.js:167  rawTxBroadcastQueue.add('broadcast-raw-tx', ..)
RawEnqueue ==
    /\ rawIntakePc = "add"
    /\ rawJobState' = "wait"
    /\ rawAttemptsMade' = 0
    /\ rawOptsAttempts' \in RawGrantedAttempts
    /\ rawIntakePc' = "done"
    /\ UNCHANGED <<rawStore, rawProcessor, rawFailedEvents, rawAlerts,
                   rawBroadcasts, rawCalls, rawDeliveries, withdrawal, dup>>

(***************************************************************************)
(* The raw-broadcast processor, worker.js:116-152                          *)
(***************************************************************************)
\* worker.js:114-118  the Worker takes the waiting job and calls the
\* processor.  The broker does not await the 'failed' listener of the
\* attempt before, so a retry can start while that listener still runs.
RawDeliver ==
    /\ rawJobState = "wait"
    /\ rawPc = "idle"
    /\ rawJobState' = "active"
    /\ rawPc' = "findUnique"
    /\ rawRequest' = NoRow
    /\ rawTxResponse' = 0
    /\ rawError' = Null
    /\ rawCalls' = <<>>
    /\ rawDeliveries' = rawDeliveries + 1
    /\ UNCHANGED <<rawStore, rawAttemptsMade, rawOptsAttempts,
                   rawFailedEvents, rawAlerts, rawBroadcasts, rawIntakePc,
                   withdrawal, dup>>

\* the skip condition without the status test (a faulty variant, for C14)
RawSkipsMissingOnly(r) == r = NoRow

\* worker.js:122  !request || request.status !== 'PENDING'
RawSkips(r) == r = NoRow \/ r # "PENDING"

\* worker.js:120-125  load the row; return at once when it is to be skipped
RawFindUnique ==
    /\ rawPc = "findUnique"
    /\ rawRequest' = rawStatus
    /\ rawPc' = IF RawSkips(rawStatus) THEN "skipped" ELSE "broadcast"
    /\ UNCHANGED <<rawStore, rawJob, rawTxResponse, rawError,
                   rawFailedEvents, rawAlerts, rawBroadcasts, rawCalls,
                   rawDeliveries, rawIntakePc, withdrawal, dup>>

\* worker.js:148-151  an awaited call inside the try rejected with `err`:
\* the catch logs and rethrows
RawThrows(err) ==
    /\ rawPc' = "threw"
    /\ rawError' = err

\* worker.js:133  provider.broadcastTransaction(request.rawTx)
BroadcastTransaction ==
    /\ rawPc = "broadcast"
    /\ rawCalls' = Append(rawCalls, "broadcast")
    /\ \/ /\ rawPc' = "setBroadcasted"
          /\ rawBroadcasts' = rawBroadcasts + 1
          /\ rawTxResponse' = rawBroadcasts + 1
          /\ UNCHANGED rawError
       \/ /\ RawThrows(ErrBroadcast)
          /\ UNCHANGED <<rawBroadcasts, rawTxResponse>>
    /\ UNCHANGED <<rawStore, rawJob, rawRequest, rawFailedEvents, rawAlerts,
                   rawDeliveries, rawIntakePc, withdrawal, dup>>

\* worker.js:135-138  status BROADCASTED and txHash
RawSetBroadcasted ==
    /\ rawPc = "setBroadcasted"
    /\ \/ /\ rawStatus' = "BROADCASTED"
          /\ rawTxHash' = rawTxResponse
          /\ rawPc' = "wait"
          /\ UNCHANGED <<rawErrorMessage, rawError>>
       \/ /\ RawThrows(ErrStore)
          /\ UNCHANGED rawStore
    /\ UNCHANGED <<rawJob, rawRequest, rawTxResponse, rawFailedEvents,
                   rawAlerts, rawBroadcasts, rawCalls, rawDeliveries,
                   rawIntakePc, withdrawal, dup>>

\* worker.js:141  txResponse.wait(1)
RawWait ==
    /\ rawPc = "wait"
    /\ rawCalls' = Append(rawCalls, "wait")
    /\ \/ /\ rawPc' = "setConfirmed"
          /\ UNCHANGED rawError
       \/ RawThrows(ErrWait)
    /\ UNCHANGED <<rawStore, rawJob, rawRequest, rawTxResponse,
                   rawFailedEvents, rawAlerts, rawBroadcasts, rawDeliveries,
                   rawIntakePc, withdrawal, dup>>

\* worker.js:143-147  status CONFIRMED; the processor returns
RawSetConfirmed ==
    /\ rawPc = "setConfirmed"
    /\ \/ /\ rawStatus' = "CONFIRMED"
          /\ rawPc' = "returned"
          /\ UNCHANGED <<rawTxHash, rawErrorMessage, rawError>>
       \/ /\ RawThrows(ErrStore)
          /\ UNCHANGED rawStore
    /\ UNCHANGED <<rawJob, rawRequest, rawTxResponse, rawFailedEvents,
                   rawAlerts, rawBroadcasts, rawCalls, rawDeliveries,
                   rawIntakePc, withdrawal, dup>>

\* the processor returned (worker.js:124 or worker.js:147): the job is
\* completed; the 'completed' listener (worker.js:177-179) only logs
RawMoveToCompleted ==
    /\ rawJobState = "active"
    /\ rawPc \in {"skipped", "returned"}
    /\ rawJobState' = "completed"
    /\ UNCHANGED <<rawStore, rawAttemptsMade, rawOptsAttempts, rawProcessor,
                   rawFailedEvents, rawAlerts, rawBroadcasts, rawCalls,
                   rawDeliveries, rawIntakePc, withdrawal, dup>>

\* the processor threw (worker.js:150): the attempt is counted, the job is
\* retried or moved to the failed set (worker.js:153-157), and 'failed' is
\* emitted with the job and the error (worker.js:181)
RawMoveToFailed ==
    /\ rawJobState = "active"
    /\ rawPc = "threw"
    /\ rawAttemptsMade' = rawAttemptsMade + 1
    /\ rawJobState' = IF rawAttemptsMade + 1 < rawOptsAttempts
                      THEN "wait" ELSE "failed"
    /\ rawFailedEvents' = Append(rawFailedEvents,
           [attemptsMade |-> rawAttemptsMade + 1, err |-> rawError,
            pc |-> "update"])
    /\ rawPc' = "idle"
    /\ UNCHANGED <<rawStore, rawOptsAttempts, rawRequest, rawTxResponse,
                   rawError, rawAlerts, rawBroadcasts, rawCalls,
                   rawDeliveries, rawIntakePc, withdrawal, dup>>

(***************************************************************************)
(* rawTxBroadcastWorker.on('failed'), worker.js:181-191                    *)
(***************************************************************************)
\* a listener that marks FAILED only a row that is PENDING (a faulty
\* variant, for C26)
RawFailedUpdateIfPending ==
    /\ rawFailedEvents # <<>>
    /\ Head(rawFailedEvents).pc = "update"
    /\ IF rawStatus = "PENDING"
       THEN /\ rawStatus' = "FAILED"
            /\ rawErrorMessage' = Head(rawFailedEvents).err
       ELSE UNCHANGED <<rawStatus, rawErrorMessage>>
    /\ rawFailedEvents' = [rawFailedEvents EXCEPT ![1].pc = "alert"]
    /\ UNCHANGED <<rawTxHash, rawJob, rawProcessor, rawAlerts,
                   rawBroadcasts, rawCalls, rawDeliveries, rawIntakePc,
                   withdrawal, dup>>

\* worker.js:184-187  status FAILED and errorMessage
RawFailedUpdate ==
    /\ rawFailedEvents # <<>>
    /\ Head(rawFailedEvents).pc = "update"
    /\ rawStatus' = "FAILED"
    /\ rawErrorMessage' = Head(rawFailedEvents).err
    /\ rawFailedEvents' = [rawFailedEvents EXCEPT ![1].pc = "alert"]
    /\ UNCHANGED <<rawTxHash, rawJob, rawProcessor, rawAlerts,
                   rawBroadcasts, rawCalls, rawDeliveries, rawIntakePc,
                   withdrawal, dup>>

\* worker.js:188-190  alertingService.sendAlert(title, payload), with
\* attempts: job.attemptsMade + 1
RawFailedAlert ==
    /\ rawFailedEvents # <<>>
    /\ Head(rawFailedEvents).pc = "alert"
    /\ rawAlerts' = Append(rawAlerts,
           [attempts |-> Head(rawFailedEvents).attemptsMade + 1,
            error |-> Head(rawFailedEvents).err])
    /\ rawFailedEvents' = Tail(rawFailedEvents)
    /\ UNCHANGED <<rawStore, rawJob, rawProcessor, rawBroadcasts, rawCalls,
                   rawDeliveries, rawIntakePc, withdrawal, dup>>

(***************************************************************************)
(* One request named by two jobs.  The withdrawal processor of             *)
(* worker.js:22-100 is written once more, with the job as a parameter, so  *)
(* that two executions of it can run side by side (two worker processes,   *)
(* or one Worker run with a concurrency above 1).  The row is cut down to  *)
(* its status and txHash; errors are not told apart.                       *)
(***************************************************************************)
\* withdrawal_manager.js:57-67  the row of the request, as created
DupCreate ==
    /\ dupStatus = NoRow
    /\ dupStatus' = "PENDING_SIGNATURE"
    /\ UNCHANGED <<dupTxHash, dupJob, dupProcessor, dupFailed, dupChain,
                   withdrawal, raw>>

\* a job whose data is the id of the row arrives on the queue of
\* worker.js:20-21: the one of withdrawal_manager.js:70, and a second one
\* from any other producer of the queue
DupAdd(j) ==
    /\ dupStatus # NoRow
    /\ dupJobState[j] = "none"
    /\ dupJobState' = [dupJobState EXCEPT ![j] = "wait"]
    /\ \E n \in GrantedAttempts :
           dupOptsAttempts' = [dupOptsAttempts EXCEPT ![j] = n]
    /\ UNCHANGED <<dupStore, dupAttemptsMade, dupProcessor, dupFailed,
                   dupChain, withdrawal, raw>>

\* worker.js:20-24  a worker instance takes the waiting job; a retry
\* waits for its backoff delay, which outlasts the 'failed' listener
DupDeliver(j) ==
    /\ dupJobState[j] = "wait"
    /\ dupPc[j] = "idle"
    /\ ~dupFailed[j]
    /\ dupJobState' = [dupJobState EXCEPT ![j] = "active"]
    /\ dupPc' = [dupPc EXCEPT ![j] = "findUnique"]
    /\ dupRequest' = [dupRequest EXCEPT ![j] = NoRow]
    /\ dupTxResponse' = [dupTxResponse EXCEPT ![j] = 0]
    /\ UNCHANGED <<dupStore, dupAttemptsMade, dupOptsAttempts, dupFailed,
                   dupChain, withdrawal, raw>>

\* a skip check that lets through only a row nobody has started on (a
\* faulty variant, for C22)
DupSkipsStarted(r) == r # "PENDING_SIGNATURE"

\* worker.js:29  !request || ['COMPLETED','CANCELLED'].includes(request.status)
DupSkips(r) == r = NoRow \/ r \in {"COMPLETED", "CANCELLED"}

\* worker.js:26-32, 44  load the row; return when it is to be skipped
DupFindUnique(j) ==
    /\ dupPc[j] = "findUnique"
    /\ dupRequest' = [dupRequest EXCEPT ![j] = dupStatus]
    /\ dupPc' = [dupPc EXCEPT ![j] =
           IF DupSkips(dupStatus) THEN "skipped"
           ELSE IF dupAttemptsMade[j] = 0 THEN "setProcessing"
           ELSE "decimals"]
    /\ UNCHANGED <<dupStore, dupJob, dupTxResponse, dupFailed, dupChain,
                   withdrawal, raw>>

\* worker.js:45-52  status PROCESSING
DupSetProcessing(j) ==
    /\ dupPc[j] = "setProcessing"
    /\ dupStatus' = "PROCESSING"
    /\ dupPc' = [dupPc EXCEPT ![j] = "decimals"]
    /\ UNCHANGED <<dupTxHash, dupJob, dupRequest, dupTxResponse, dupFailed,
                   dupChain, withdrawal, raw>>

\* an awaited call of the chain client at position `at`: it resolves and the
\* processor moves to `next`, or it rejects and worker.js:95-99 rethrows
DupChainCall(j, at, next) ==
    /\ dupPc[j] = at
    /\ \E to \in {next, "threw"} : dupPc' = [dupPc EXCEPT ![j] = to]

\* worker.js:56-60  tokenContract.decimals()
DupDecimals(j) ==
    /\ DupChainCall(j, "decimals", "getFeeData")
    /\ UNCHANGED <<dupStore, dupJob, dupRequest, dupTxResponse, dupFailed,
                   dupChain, withdrawal, raw>>

\* worker.js:63-69  provider.getFeeData()
DupGetFeeData(j) ==
    /\ DupChainCall(j, "getFeeData", "transfer")
    /\ UNCHANGED <<dupStore, dupJob, dupRequest, dupTxResponse, dupFailed,
                   dupChain, withdrawal, raw>>

\* worker.js:72-76  tokenContract.transfer(to, amount, txOverrides)
DupTransfer(j) ==
    /\ DupChainCall(j, "transfer", "setBroadcasted")
    /\ IF dupPc'[j] = "setBroadcasted"
       THEN /\ dupSubmitted' = dupSubmitted + 1
            /\ dupSubmittedBy' = dupSubmittedBy \cup {j}
            /\ dupTxResponse' = [dupTxResponse EXCEPT ![j] = dupSubmitted + 1]
       ELSE UNCHANGED <<dupChain, dupTxResponse>>
    /\ UNCHANGED <<dupStore, dupJob, dupRequest, dupFailed, withdrawal,
                   raw>>

\* worker.js:78-85  status BROADCASTED and txHash
DupSetBroadcasted(j) ==
    /\ dupPc[j] = "setBroadcasted"
    /\ dupStatus' = "BROADCASTED"
    /\ dupTxHash' = dupTxResponse[j]
    /\ dupPc' = [dupPc EXCEPT ![j] = "wait"]
    /\ UNCHANGED <<dupJob, dupRequest, dupTxResponse, dupFailed, dupChain,
                   withdrawal, raw>>

\* worker.js:88  txResponse.wait(1)
DupWait(j) ==
    /\ DupChainCall(j, "wait", "setCompleted")
    /\ UNCHANGED <<dupStore, dupJob, dupRequest, dupTxResponse, dupFailed,
                   dupChain, withdrawal, raw>>

\* worker.js:90-94  status COMPLETED; the processor returns
DupSetCompleted(j) ==
    /\ dupPc[j] = "setCompleted"
    /\ dupStatus' = "COMPLETED"
    /\ dupPc' = [dupPc EXCEPT ![j] = "returned"]
    /\ UNCHANGED <<dupTxHash, dupJob, dupRequest, dupTxResponse, dupFailed,
                   dupChain, withdrawal, raw>>

\* the processor returned (worker.js:31 or worker.js:94)
DupMoveToCompleted(j) ==
    /\ dupJobState[j] = "active"
    /\ dupPc[j] \in {"skipped", "returned"}
    /\ dupJobState' = [dupJobState EXCEPT ![j] = "completed"]
    /\ UNCHANGED <<dupStore, dupAttemptsMade, dupOptsAttempts, dupProcessor,
                   dupFailed, dupChain, withdrawal, raw>>

\* the processor threw (worker.js:98): the attempt is counted, the job is
\* retried or failed (worker.js:101-109), and 'failed' is emitted
DupMoveToFailed(j) ==
    /\ dupJobState[j] = "active"
    /\ dupPc[j] = "threw"
    /\ dupAttemptsMade' = [dupAttemptsMade EXCEPT ![j] = @ + 1]
    /\ dupJobState' = [dupJobState EXCEPT ![j] =
           IF dupAttemptsMade[j] + 1 < dupOptsAttempts[j]
           THEN "wait" ELSE "failed"]
    /\ dupFailed' = [dupFailed EXCEPT ![j] = TRUE]
    /\ dupPc' = [dupPc EXCEPT ![j] = "idle"]
    /\ UNCHANGED <<dupStore, dupOptsAttempts, dupRequest, dupTxResponse,
                   dupChain, withdrawal, raw>>

\* worker.js:165-175  the 'failed' listener: status FAILED; sendAlert
\* (part_000:15-28) writes to the console only
DupFailedListener(j) ==
    /\ dupFailed[j]
    /\ dupStatus' = "FAILED"
    /\ dupFailed' = [dupFailed EXCEPT ![j] = FALSE]
    /\ UNCHANGED <<dupTxHash, dupJob, dupProcessor, dupChain, withdrawal,
                   raw>>

(***************************************************************************)
(* The system                                                              *)
(***************************************************************************)
ProcessNewRequest(c) ==
    ProcessNewRequestFind(c) \/ ProcessNewRequestCreate(c) \/ Enqueue(c)

Processor ==
    \/ FindUnique
    \/ SetProcessing
    \/ Decimals
    \/ GetFeeData
    \/ Transfer
    \/ SetBroadcasted
    \/ Wait
    \/ SetCompleted

Broker == Deliver \/ MoveToCompleted \/ MoveToFailed

FailedListener == FailedUpdate \/ FailedAlert

\* processNewRequest is called by one submitter, one call after the other
Next ==
    \/ ProcessNewRequest(1)
    \/ CancelRequest
    \/ Broker
    \/ Processor
    \/ FailedListener

\* the service with a store that answers every update of the processor
Spec == Init /\ [][Next]_vars

\* the service with a store whose updates can reject
NextFaults == Next \/ UpdateRejects

\* the API process alone, the worker process not running: processNewRequest
\* called by several submitters at once, with a queue that can reject the
\* add, and cancelRequest
NextIntake ==
    \/ \E c \in Submitters : ProcessNewRequest(c) \/ EnqueueRejects(c)
    \/ CancelRequest

SpecIntake == Init /\ [][NextIntake]_vars

SpecFaults == Init /\ [][NextFaults]_vars

ProcessRawTransactionBroadcast == RawCreate \/ RawEnqueue

RawProcessor ==
    \/ RawFindUnique
    \/ BroadcastTransaction
    \/ RawSetBroadcasted
    \/ RawWait
    \/ RawSetConfirmed

RawBroker == RawDeliver \/ RawMoveToCompleted \/ RawMoveToFailed

RawFailedListener == RawFailedUpdate \/ RawFailedAlert

NextRaw ==
    \/ ProcessRawTransactionBroadcast
    \/ RawProcessor
    \/ RawBroker
    \/ RawFailedListener

\* the raw transaction relay alone
SpecRaw == Init /\ [][NextRaw]_vars

DupProcessor(j) ==
    \/ DupFindUnique(j)
    \/ DupSetProcessing(j)
    \/ DupDecimals(j)
    \/ DupGetFeeData(j)
    \/ DupTransfer(j)
    \/ DupSetBroadcasted(j)
    \/ DupWait(j)
    \/ DupSetCompleted(j)

DupBroker(j) == DupDeliver(j) \/ DupMoveToCompleted(j) \/ DupMoveToFailed(j)

NextDup ==
    \/ DupCreate
    \/ \E j \in Jobs :
          DupAdd(j) \/ DupProcessor(j) \/ DupBroker(j) \/ DupFailedListener(j)

\* one request, two jobs, two worker instances
SpecDup == Init /\ [][NextDup]_vars

\* the values the variables take
TypeOK ==
    /\ status \in Statuses \cup {NoRow}
    /\ txHash \in 0..attempts
    /\ errorMessage \in Errors \cup {Null}
    /\ history \in Seq(Statuses)
    /\ jobState \in {"none", "wait", "active", "completed", "failed"}
    /\ attemptsMade \in 0..attempts
    /\ optsAttempts \in GrantedAttempts \cup {0}
    /\ pc \in {"idle", "findUnique", "setProcessing", "decimals",
               "getFeeData", "transfer", "setBroadcasted", "wait",
               "setCompleted", "skipped", "returned", "threw"}
    /\ request \in Statuses \cup {NoRow}
    /\ txResponse \in 0..attempts
    /\ feeData \in 0..attempts
    /\ error \in Errors \cup {Null}
    /\ Len(failedEvents) <= attempts
    /\ Len(alerts) <= attempts
    /\ intakePc \in [Submitters -> {"idle", "create", "add"}]
    /\ intakeResult \in
           [Submitters ->
               {"none", "ok", "duplicate", "rejected", "enqueueFailed"}]
    /\ cancelPc \in [Callers -> {"idle", "update", "ok", "conflict", "notfound"}]
    /\ submitted \in 0..attempts
    /\ deliveries \in 0..attempts
    /\ outcomes \subseteq Errors \cup {"ok", "skipped"}
    /\ submittedFee \in 0..attempts
    /\ confirmed \subseteq 1..attempts
    /\ Len(chainCalls) <= 4
    /\ rowId \in 0..1 /\ dbId \in 0..1
    /\ rowsCreated \in 0..1 /\ jobsAdded \in 0..1
    /\ rawStatus \in RawStatuses \cup {NoRow}
    /\ rawTxHash \in 0..rawAttempts
    /\ rawErrorMessage \in RawErrors \cup {Null}
    /\ rawJobState \in {"none", "wait", "active", "completed", "failed"}
    /\ rawAttemptsMade \in 0..rawAttempts
    /\ rawOptsAttempts \in RawGrantedAttempts \cup {0}
    /\ rawRequest \in RawStatuses \cup {NoRow}
    /\ rawError \in RawErrors \cup {Null}
    /\ Len(rawAlerts) <= rawAttempts
    /\ rawDeliveries \in 0..rawAttempts
    /\ dupStatus \in Statuses \cup {NoRow}
    /\ dupJobState \in [Jobs -> {"none", "wait", "active", "completed", "failed"}]
    /\ dupAttemptsMade \in [Jobs -> 0..attempts]
    /\ dupOptsAttempts \in [Jobs -> GrantedAttempts \cup {0}]
    /\ dupRequest \in [Jobs -> Statuses \cup {NoRow}]
    /\ dupFailed \in [Jobs -> BOOLEAN]
    /\ dupSubmittedBy \subseteq Jobs


(***************************************************************************)
(* Properties                                                              *)
(***************************************************************************)
\* no cancelRequest call has been made
NoCancel == \A c \in Callers : cancelPc[c] = "idle"

\* the number of entries of sequence h equal to s
RECURSIVE Count(_, _)
Count(h, s) ==
    IF h = <<>> THEN 0
    ELSE (IF Head(h) = s THEN 1 ELSE 0) + Count(Tail(h), s)

\* a step that writes the status of the existing row (each such write
\* appends one HistoryEntry)
StatusWrite == status # NoRow /\ Len(history') = Len(history) + 1

\* the transition graph of the withdrawal state machine
Edges ==
    {<<"PENDING_SIGNATURE", "PROCESSING">>,
     <<"PENDING_SIGNATURE", "CANCELLED">>,
     <<"PROCESSING", "BROADCASTED">>,
     <<"PROCESSING", "FAILED">>,
     <<"BROADCASTED", "COMPLETED">>}

\* C1: every write of a request's status, by the processor, the 'failed'
\* listener or cancelRequest, follows an edge of the transition graph.
C1_StatusFollowsGraph ==
    [][StatusWrite => <<status, status'>> \in Edges]_vars

\* C2: once the status is COMPLETED or CANCELLED, no step of the processor
\* or of the 'failed' listener changes status, txHash, errorMessage or
\* history.
C2_FinalRowUntouched ==
    [][(status \in {"COMPLETED", "CANCELLED"} /\ (Processor \/ FailedListener))
          => UNCHANGED store]_vars

\* C3: a delivery that loads no row, or a row that is COMPLETED or
\* CANCELLED, returns at once, whatever attemptsMade is: the step writes
\* nothing to the store and calls the chain client not at all, the
\* processor does nothing after it, and the broker completes the job.
C3_SkipIsNoOp ==
    [][/\ (pc = "findUnique" /\ status \in {NoRow, "COMPLETED", "CANCELLED"}
             /\ pc' # pc)
          => /\ pc' = "skipped"
             /\ UNCHANGED <<store, chain, job, failedEvents, alerts>>
       /\ pc = "skipped"
          => /\ pc' = "skipped"
             /\ UNCHANGED <<chain, failedEvents, alerts, attemptsMade>>
             /\ jobState' \in {jobState, "completed"}
             /\ jobState' # jobState => UNCHANGED store]_vars

\* C3's case: a retry (attemptsMade > 0) loaded a CANCELLED row, skipped,
\* and the job was completed
C3_Witness ==
    /\ pc = "skipped"
    /\ request = "CANCELLED"
    /\ attemptsMade > 0
    /\ jobState = "completed"
    /\ chainCalls = <<>>

\* C4: a cancelRequest step taken while the status is not PENDING_SIGNATURE
\* leaves status and history unchanged, and the call does not succeed.
C4_CancelGuard ==
    [][\A c \in Callers :
          (status \in Statuses \ {"PENDING_SIGNATURE"}
              /\ (CancelFind(c) \/ CancelUpdate(c)))
          => /\ UNCHANGED <<status, history>>
             /\ cancelPc'[c] = "conflict"]_vars

\* C5: with every transfer submission failing (nothing else fails, nobody
\* cancels), the request is FAILED and alerted only once the 5th attempt
\* has failed, there is never more than one alert, and when the job is over
\* 5 attempts were made, the status is FAILED and one alert was sent.
C5_RetryBound ==
    (NoCancel /\ outcomes \subseteq {ErrTransfer})
    => /\ (status = "FAILED" \/ alerts # <<>>) => attemptsMade = 5
       /\ Len(alerts) <= 1
       /\ (jobState = "failed" /\ failedEvents = <<>>)
          => /\ deliveries = 5
             /\ status = "FAILED"
             /\ Len(alerts) = 1

\* C6: the terminal-failure path (FAILED written with a FAILED history
\* entry, then an alert) runs at most once for the job, and not at all for
\* a job one of whose attempts succeeded.
C6_TerminalFailureOnce ==
    /\ Count(history, "FAILED") <= 1
    /\ Len(alerts) <= 1
    /\ "ok" \in outcomes => (Count(history, "FAILED") = 0 /\ alerts = <<>>)

\* C7: the request has one history entry for its creation and one for each
\* write that changed the value of its status, and no others.
C7_HistoryCountsChanges ==
    status # NoRow => Len(history) = 1 + statusChanges

\* C8: a PROCESSING history entry is appended, with the status set to
\* PROCESSING and errorMessage cleared, only by an attempt whose
\* attemptsMade is 0, so the history of a request never holds more than one
\* PROCESSING entry however many retries its job needs.
C8_ProcessingOnce ==
    /\ [](Count(history, "PROCESSING") <= 1)
    /\ [][(StatusWrite /\ status' = "PROCESSING")
             => (attemptsMade = 0 /\ errorMessage' = Null)]_vars

\* C8's case: a retry is past the PROCESSING step and the history still
\* holds the one PROCESSING entry of the first attempt
C8_Witness ==
    /\ attemptsMade >= 2
    /\ pc = "getFeeData"
    /\ Count(history, "PROCESSING") = 1

\* C9: with the transfer submission failing on attempts 1 to 4 (nothing
\* else fails, nobody cancels), the job is not given up before its 5th
\* attempt and no alert is sent; when the 5th attempt succeeds and
\* confirms, the status is COMPLETED.
C9_FifthAttemptCompletes ==
    NoCancel
    => /\ (outcomes \subseteq {ErrTransfer} /\ jobState = "failed")
          => attemptsMade = 5
       /\ (outcomes \subseteq {ErrTransfer, "ok"} /\ attemptsMade <= 4)
          => alerts = <<>>
       /\ (outcomes = {ErrTransfer, "ok"} /\ attemptsMade = 4
             /\ jobState = "completed")
          => status = "COMPLETED"

HappyPath == <<"PENDING_SIGNATURE", "PROCESSING", "BROADCASTED", "COMPLETED">>

\* C10: with no cancel and no failing chain call, the history of a
\* submitted request is at every moment the first entries of
\* PENDING_SIGNATURE, PROCESSING, BROADCASTED, COMPLETED, the status is the
\* last of them, and when the job is over the history holds all four.
C10_HappyPath ==
    (NoCancel /\ outcomes \subseteq {"ok"} /\ status # NoRow)
    => /\ Len(history) \in 1..4
       /\ history = SubSeq(HappyPath, 1, Len(history))
       /\ status = history[Len(history)]
       /\ jobState = "completed" => history = HappyPath
       /\ history = HappyPath => pc = "returned"

\* C10's case: the job of an uncancelled request ran once, every chain call
\* succeeded, and the job is completed
C10_Witness ==
    /\ NoCancel
    /\ outcomes = {"ok"}
    /\ jobState = "completed"
    /\ deliveries = 1
    /\ status = "COMPLETED"
    /\ history = HappyPath

\* C11: an error raised by a withdrawal attempt after the skip check ends
\* the execution at once; the broker then counts the attempt as failed and
\* emits 'failed' with that error, and never completes the job on such an
\* attempt; no attempt calls transfer more than once.
C11_ErrorsReachBroker ==
    /\ [](Count(chainCalls, "transfer") <= 1)
    /\ [][/\ (error' # error /\ error' # Null)
             => (pc' = "threw" /\ jobState' = "active")
          /\ pc = "threw"
             => /\ pc' \in {"threw", "idle"}
                /\ jobState' \in {jobState, "wait", "failed"}
                /\ pc' = "idle"
                   => /\ attemptsMade' = attemptsMade + 1
                      /\ failedEvents' # <<>>
                      /\ failedEvents'[Len(failedEvents')].err = error
          /\ (jobState = "active" /\ jobState' = "completed")
             => error = Null]_vars

\* C11's case: the job used up its attempts, each of the five kinds of
\* error ended one of them, and none was reported as a success
C11_Witness ==
    /\ jobState = "failed"
    /\ outcomes = {ErrDecimals, ErrFeeData, ErrTransfer, ErrWait, ErrStore}
    /\ deliveries = 5
    /\ attemptsMade = 5

\* C12: when the job has failed on all 5 attempts and the 'failed' listener
\* is done, the stored errorMessage is the message of the error of the last
\* attempt, and the last alert carries that message and attempts = 5.
C12_TerminalAlert ==
    (jobState = "failed" /\ attemptsMade = 5 /\ failedEvents = <<>>)
    => /\ errorMessage = error
       /\ alerts # <<>>
       /\ alerts[Len(alerts)].error = error
       /\ alerts[Len(alerts)].attempts = 5

\* C13: with every broadcastTransaction call rejecting, the row is FAILED
\* and alerted only once the 3rd attempt has failed, there is never more
\* than one alert, and when the job is over 3 attempts were made, the row is
\* FAILED with the error message and one alert was sent.
C13_RawRetryBound ==
    rawBroadcasts = 0
    => /\ (rawStatus = "FAILED" \/ rawAlerts # <<>>) => rawAttemptsMade = 3
       /\ Len(rawAlerts) <= 1
       /\ (rawJobState \in {"completed", "failed"} /\ rawFailedEvents = <<>>)
          => /\ rawDeliveries = 3
             /\ rawStatus = "FAILED"
             /\ rawErrorMessage = "broadcastTransaction failed"
             /\ Len(rawAlerts) = 1

\* C14: a raw-broadcast delivery that loads no row, or a row that is
\* BROADCASTED, CONFIRMED or FAILED, returns at once: the step writes
\* nothing to the store and broadcasts nothing, the processor does nothing
\* after it, and the broker completes the job.
C14_RawSkipIsNoOp ==
    [][/\ (rawPc = "findUnique" /\ rawPc' # rawPc
             /\ rawStatus \in {NoRow, "BROADCASTED", "CONFIRMED", "FAILED"})
          => /\ rawPc' = "skipped"
             /\ UNCHANGED <<rawStore, rawBroadcasts, rawCalls, rawJob,
                            rawFailedEvents, rawAlerts>>
       /\ rawPc = "skipped"
          => /\ rawPc' = "skipped"
             /\ UNCHANGED <<rawBroadcasts, rawCalls, rawAttemptsMade>>
             /\ rawJobState' \in {rawJobState, "completed"}
             /\ rawJobState' # rawJobState
                => UNCHANGED <<rawStore, rawFailedEvents, rawAlerts>>]_vars

\* C14's case: a retry loaded a FAILED row, skipped without a call to the
\* chain client, and the job was completed
C14_Witness ==
    /\ rawPc = "skipped"
    /\ rawRequest = "FAILED"
    /\ rawStatus = "FAILED"
    /\ rawAttemptsMade > 0
    /\ rawJobState = "completed"
    /\ rawCalls = <<>>
    /\ rawBroadcasts = 0

\* C15: every change of the status of a RawTransactionBroadcast row is
\* PENDING to BROADCASTED, BROADCASTED to CONFIRMED or PENDING to FAILED; so
\* a BROADCASTED row is never set to FAILED, and a CONFIRMED or FAILED row
\* keeps its status.
C15_RawStatusFollowsGraph ==
    [][(rawStatus # NoRow /\ rawStatus' # rawStatus)
          => <<rawStatus, rawStatus'>> \in
                {<<"PENDING", "BROADCASTED">>,
                 <<"BROADCASTED", "CONFIRMED">>,
                 <<"PENDING", "FAILED">>}]_vars

\* C16: the create step of processNewRequest makes one row, with status
\* PENDING_SIGNATURE and the one history entry PENDING_SIGNATURE; the step
\* that makes the call succeed adds one job, whose dbId is the id of that
\* row, and creates and writes no row; after a successful call one row was
\* created and one job added.
C16_IntakeCreatesOneRowOneJob ==
    /\ []((\E c \in Submitters : intakeResult[c] = "ok")
            => (rowsCreated = 1 /\ jobsAdded = 1 /\ rowId # 0 /\ dbId = rowId))
    /\ [][/\ (\E c \in Submitters : intakePc[c] = "create" /\ intakePc'[c] = "add")
             => /\ status = NoRow
                /\ rowsCreated' = rowsCreated + 1
                /\ status' = "PENDING_SIGNATURE"
                /\ history' = <<"PENDING_SIGNATURE">>
                /\ jobsAdded' = jobsAdded
          /\ (\E c \in Submitters :
                 intakeResult[c] # "ok" /\ intakeResult'[c] = "ok")
             => /\ jobsAdded' = jobsAdded + 1
                /\ jobState = "none" /\ jobState' = "wait"
                /\ dbId' = rowId
                /\ rowsCreated' = rowsCreated
                /\ UNCHANGED store]_vars

\* C16's case: processNewRequest has just succeeded
C16_Witness ==
    /\ intakeResult[1] = "ok"
    /\ intakePc[1] = "idle"
    /\ rowsCreated = 1
    /\ jobsAdded = 1
    /\ dbId = rowId
    /\ jobState = "wait"
    /\ status = "PENDING_SIGNATURE"
    /\ history = <<"PENDING_SIGNATURE">>

\* C17: never more than one row is created for the requestId; a
\* processNewRequest call that fails, as a duplicate at its check or by the
\* rejection of its create, has with that step and with its steps before
\* written nothing and added no job, and the row exists; this holds when
\* several calls have passed the check before one of them creates.
C17_OneRowPerRequestId ==
    /\ [](rowsCreated <= 1 /\ jobsAdded <= rowsCreated)
    /\ [](\A c \in Submitters :
             intakeResult[c] \in {"duplicate", "rejected"}
             => (status # NoRow /\ intakePc[c] # "add"))
    /\ [][\A c \in Submitters :
             /\ (intakeResult'[c] # intakeResult[c]
                   /\ intakeResult'[c] \in {"duplicate", "rejected"})
                => /\ status # NoRow
                   /\ intakePc'[c] = "idle"
                   /\ UNCHANGED <<store, job, made>>
             /\ (intakePc[c] = "idle" /\ intakePc'[c] = "create")
                => UNCHANGED <<store, job, made>>
             /\ (intakePc[c] = "create" /\ intakePc'[c] = "add")
                => status = NoRow]_vars

\* C17's case: two calls passed the check before either created; one
\* created the row and added the job, the create of the other was rejected
C17_Witness ==
    \E c, d \in Submitters :
        /\ c # d
        /\ intakeResult[c] = "ok"
        /\ intakeResult[d] = "rejected"
        /\ rowsCreated = 1
        /\ jobsAdded = 1

\* C18: no step of the withdrawal processor appends a FAILED history entry,
\* sets the status to FAILED or stores an error message; the step on which
\* an attempt fails leaves the row as it was, with what the attempt had
\* persisted; a FAILED history entry is appended only by the update of the
\* 'failed' listener.
C18_ProcessorNeverWritesFailed ==
    [][/\ pc' # pc
          => /\ Count(history', "FAILED") = Count(history, "FAILED")
             /\ status' = "FAILED" => status = "FAILED"
             /\ errorMessage' \in {errorMessage, Null}
       /\ (pc' = "threw" /\ pc # "threw") => UNCHANGED store
       /\ Count(history', "FAILED") # Count(history, "FAILED")
          => /\ failedEvents # <<>>
             /\ Head(failedEvents).pc = "update"
             /\ status' = "FAILED"
             /\ errorMessage' = Head(failedEvents).err
             /\ UNCHANGED <<pc, jobState>>]_vars

\* C18's case: an attempt failed after it had persisted BROADCASTED and the
\* hash, and the row still holds them, with no error message and no FAILED
C18_Witness ==
    /\ pc = "threw"
    /\ error \in {ErrWait, ErrStore}
    /\ status = "BROADCASTED"
    /\ txHash = txResponse
    /\ txHash # 0
    /\ errorMessage = Null
    /\ Count(history, "FAILED") = 0

\* C19: when an attempt calls transfer, the calls it has made to the chain
\* client before are decimals and then getFeeData, and the fee values given
\* to transfer are the estimate of the attempt in progress, on the first
\* attempt and on every retry.
C19_FeeFetchedInSameDelivery ==
    [][(pc = "transfer" /\ pc' # pc)
          => /\ chainCalls = <<"decimals", "getFeeData">>
             /\ chainCalls' = <<"decimals", "getFeeData", "transfer">>
             /\ feeData = FeeAt(deliveries)
             /\ submittedFee' = FeeAt(deliveries)]_vars

\* C19's case: the third attempt submitted its transfer with the estimate
\* of the third attempt
C19_Witness ==
    /\ deliveries = 3
    /\ pc = "setBroadcasted"
    /\ chainCalls = <<"decimals", "getFeeData", "transfer">>
    /\ submittedFee = FeeAt(3)
    /\ submitted >= 1

\* C20: the status becomes COMPLETED only by the attempt in progress, after
\* that attempt called decimals, getFeeData, transfer and wait, with the
\* hash of its accepted transfer stored on the row beside a BROADCASTED
\* history entry and the wait for that hash resolved; and whenever the
\* status is COMPLETED the stored txHash is the hash of a confirmed
\* transaction.
C20_CompletedMeansConfirmed ==
    /\ [](status = "COMPLETED" => (txHash # 0 /\ txHash \in confirmed))
    /\ [][(status # "COMPLETED" /\ status' = "COMPLETED")
             => /\ pc = "setCompleted" /\ jobState = "active"
                /\ chainCalls = <<"decimals", "getFeeData", "transfer", "wait">>
                /\ txResponse # 0
                /\ txHash = txResponse
                /\ txHash' = txHash
                /\ Count(history, "BROADCASTED") >= 1
                /\ txResponse \in confirmed]_vars

\* C20's case: a retry completed the request after an earlier attempt had
\* failed, and the row holds the hash the retry submitted and saw confirmed
C20_Witness ==
    /\ status = "COMPLETED"
    /\ pc = "returned"
    /\ attemptsMade >= 1
    /\ txHash = txResponse
    /\ txHash \in confirmed
    /\ chainCalls = <<"decimals", "getFeeData", "transfer", "wait">>

\* C21: when the 'failed' listener of the withdrawal worker sends its
\* alert, the row of the request is FAILED.
C21_AlertedRowIsFailed ==
    [][Len(alerts') > Len(alerts) => status = "FAILED"]_vars

\* C22: the skip check gives no mutual exclusion between two jobs of one
\* request: while the other job is in the middle of processing the request
\* (past its own skip check, not yet returned or thrown), the step that
\* loads the row for a job never skips, it goes on towards the transfer.
C22_SkipCheckNoMutualExclusion ==
    [][\A j \in {1, 2} : \A k \in {1, 2} \ {j} :
          ( /\ dupPc[j] = "findUnique"
            /\ dupPc'[j] # "findUnique"
            /\ dupPc[k] \in {"setProcessing", "decimals", "getFeeData",
                             "transfer", "setBroadcasted", "wait",
                             "setCompleted"} )
          => dupPc'[j] \in {"setProcessing", "decimals"}]_vars

\* both jobs, each on its first delivery, loaded the row while it was
\* PENDING_SIGNATURE, passed the skip check, and each had a transfer
\* accepted by the chain
C22_Witness ==
    /\ \A j \in {1, 2} :
          /\ dupJobState[j] = "active"
          /\ dupAttemptsMade[j] = 0
          /\ dupRequest[j] = "PENDING_SIGNATURE"
          /\ dupPc[j] \in {"setBroadcasted", "wait", "setCompleted"}
    /\ dupSubmittedBy = {1, 2}
    /\ dupSubmitted = 2

\* C23: over all the attempts of the one job of a request, the chain accepts
\* at most one transfer.
C23_TransferSubmittedOnce == submitted <= 1

\* C24: once a cancelRequest call has succeeded, no step submits a transfer
\* that the chain accepts.
C24_NoTransferAfterCancel ==
    [][(\E c \in Callers : cancelPc[c] = "ok") => submitted' = submitted]_vars

\* C25: the status of a request is at every moment the status of the
\* history entry appended last.
C25_LastHistoryIsStatus ==
    status # NoRow => (history # <<>> /\ history[Len(history)] = status)

\* C25's case: the row was written by processNewRequest, by the processor,
\* by the 'failed' listener and by cancelRequest, and its status is that of
\* the entry appended last
C25_Witness ==
    /\ Count(history, "PENDING_SIGNATURE") = 1
    /\ Count(history, "PROCESSING") = 1
    /\ Count(history, "BROADCASTED") >= 1
    /\ Count(history, "FAILED") >= 1
    /\ history[Len(history)] = "CANCELLED"
    /\ status = "CANCELLED"

\* C26: when the raw-broadcast job is completed or failed, no attempt of it
\* is running and no 'failed' listener has its update still to do, the row
\* is CONFIRMED or FAILED.
C26_RawJobOverRowTerminal ==
    (/\ rawJobState \in {"completed", "failed"}
     /\ \A i \in 1..Len(rawFailedEvents) : rawFailedEvents[i].pc # "update")
    => rawStatus \in {"CONFIRMED", "FAILED"}

\* C26's case: the wait failed on the first attempt, which had set the row
\* to BROADCASTED; the retry skipped; the job is completed and the row is
\* FAILED
C26_Witness ==
    /\ rawJobState = "completed"
    /\ rawPc = "skipped"
    /\ rawAttemptsMade = 1
    /\ rawTxHash # 0
    /\ rawErrorMessage = ErrWait
    /\ rawFailedEvents = <<>>
    /\ rawStatus = "FAILED"

\* C27: when the one job of a request is completed or failed and the
\* 'failed' listener has nothing left to do, the status of the request is
\* COMPLETED, CANCELLED or FAILED.
C27_JobOverRowTerminal ==
    (jobState \in {"completed", "failed"} /\ failedEvents = <<>>)
    => status \in {"COMPLETED", "CANCELLED", "FAILED"}

\* C27's case: the job used up its 5 attempts after a transfer was
\* broadcast, and the row is FAILED
C27_Witness ==
    /\ jobState = "failed"
    /\ attemptsMade = 5
    /\ failedEvents = <<>>
    /\ Count(history, "BROADCASTED") >= 1
    /\ status = "FAILED"

\* C28: a row that exists, with no processNewRequest call between its
\* create and its queue.add, has had a job added for it.
C28_EveryRowHasJob ==
    (status # NoRow /\ \A c \in Submitters : intakePc[c] # "add")
    => jobsAdded >= 1

=============================================================================
